---- MODULE Spec2Model ----
(***************************************************************************)
(* State-machine model of the TodoApp class of src/script.js: the task     *)
(* collection, the id counter, the filter, the edit marker, the pending    *)
(* confirmation, the rendered task list, the removal timers started by     *)
(* deleteTask and the localStorage entry written by saveTasks.             *)
(*                                                                         *)
(* Every method of the class is an operator from the state before the call *)
(* to the state after it (a record with one field per variable), so that a *)
(* method that calls another one is the composition of the two.  Every     *)
(* action of the specification is one call of a method, or one run of a    *)
(* timer callback, or one load of the page.                                *)
(*                                                                         *)
(* A text is the run-length form of a JavaScript string: a sequence of runs *)
(* [c, n], n >= 1 copies of the UTF-16 code unit c, in which neighbouring  *)
(* runs have different code units.  Two strings are equal exactly when     *)
(* their run-length forms are, and trim(), toLowerCase() and .length are   *)
(* computed on that form.                                                  *)
(***************************************************************************)
EXTENDS Integers, Sequences, FiniteSets, TLC

VARIABLES tasks, currentFilter, editingTaskId, taskIdCounter,
          pendingAction, modalShown, inputError,
          storage, storageFull, timers, dom, domEdit, uncaught,
          issued

vars == <<tasks, currentFilter, editingTaskId, taskIdCounter,
          pendingAction, modalShown, inputError,
          storage, storageFull, timers, dom, domEdit, uncaught,
          issued>>

----------------------------------------------------------------------------
(* Bounds of the model.                                                    *)

\* cap of taskIdCounter: addTask is not explored beyond this many creations
MaxId == 2

\* cap on the number of removal timers that are pending at the same time
MaxTimers == 1

\* cap on the length of the log of issued ids where a reload can bring an
\* old counter back
MaxIssued == 3

\* cap on the number of tasks of the stores whose statistics are taken
MaxStats == 40

----------------------------------------------------------------------------
(* Values.                                                                 *)

\* the limit of validateTaskInput and saveEdit: text.length > 100 is refused
MaxLen == 100

\* JavaScript null in a string-valued field (completedAt, deadline, storage)
NULL == "null"

\* JavaScript null in editingTaskId; every id the program issues is >= 1
NoTask == 0

\* the value of new Date().toISOString() at the time of the call
Now == "now"

\* the messages of showError
MsgEmpty == "Please enter a task description."
MsgEditEmpty == "Task description cannot be empty."
MsgTooLong == "Task description must be 100 characters or less."
MsgDuplicate == "This task already exists."
MsgSaveFailed == "Failed to save tasks. Storage might be full."
NoError == ""

Run(c, n) == [c |-> c, n |-> n]

\* what the user can have typed in the task input or in an edit input:
\* "", " ", " a ", "A", "b", " x...x " (100 times x) and "x...x" (101 times)
Inputs ==
    { <<>>,
      << Run(" ", 1) >>,
      << Run(" ", 1), Run("a", 1), Run(" ", 1) >>,
      << Run("A", 1) >>,
      << Run("b", 1) >>,
      << Run(" ", 1), Run("x", MaxLen), Run(" ", 1) >>,
      << Run("x", MaxLen + 1) >> }

\* what the user can have picked in the deadline input ("" when left empty)
DeadlineInputs == { "" }

\* the ids a method can be called with: the ids that addTask can issue; an
\* id that is not issued yet is the id of no task
TaskIds == 1..MaxId

Filters == { "all", "active", "completed" }

\* what setFilter can be called with: the click handler passes
\* e.target.dataset.filter, which is one of the three values on a filter
\* button and undefined on an element without the attribute; setFilter
\* itself takes any value
Undefined == "undefined"
FilterInputs == Filters \cup { Undefined }

----------------------------------------------------------------------------
(* String functions.                                                       *)

IsSpace(c) == c = " "

RECURSIVE TrimStart(_)
TrimStart(s) ==
    IF s = <<>> THEN <<>>
    ELSE IF IsSpace(Head(s).c) THEN TrimStart(Tail(s)) ELSE s

RECURSIVE TrimEnd(_)
TrimEnd(s) ==
    IF s = <<>> THEN <<>>
    ELSE IF IsSpace(s[Len(s)].c) THEN TrimEnd(SubSeq(s, 1, Len(s) - 1))
    ELSE s

\* variant of trim that leaves the text as it is (C5 fails with it)
Untrimmed(s) == s

\* String.prototype.trim
Trim(s) == TrimEnd(TrimStart(s))

\* String.prototype.length: the number of code units
RECURSIVE Length(_)
Length(s) ==
    IF s = <<>> THEN 0 ELSE Head(s).n + Length(Tail(s))

LowerChar(c) ==
    CASE c = "A" -> "a"
      [] c = "B" -> "b"
      [] c = "X" -> "x"
      [] OTHER -> c

\* the run-length form of a sequence of runs: neighbours with the same code
\* unit become one run
RECURSIVE Merge(_)
Merge(s) ==
    IF Len(s) < 2 THEN s
    ELSE IF s[1].c = s[2].c
    THEN Merge(<< Run(s[1].c, s[1].n + s[2].n) >> \o SubSeq(s, 3, Len(s)))
    ELSE << s[1] >> \o Merge(Tail(s))

\* String.prototype.toLowerCase
ToLowerCase(s) == Merge([i \in 1..Len(s) |-> Run(LowerChar(s[i].c), s[i].n)])

----------------------------------------------------------------------------
(* Array functions.                                                        *)

\* Array.prototype.findIndex(t => t.id === taskId), 0-based, -1 when absent
FindIndex(ts, taskId) ==
    IF \E i \in 1..Len(ts) : ts[i].id = taskId
    THEN (CHOOSE i \in 1..Len(ts) :
              /\ ts[i].id = taskId
              /\ \A j \in 1..(i - 1) : ts[j].id # taskId) - 1
    ELSE -1

\* Array.prototype.splice(index, 1) with a 0-based index >= 0
Splice(ts, index) ==
    IF index < Len(ts)
    THEN SubSeq(ts, 1, index) \o SubSeq(ts, index + 2, Len(ts))
    ELSE ts

IsActive(task) == ~task.completed
IsCompleted(task) == task.completed

----------------------------------------------------------------------------
(* The state as a record, and the step that makes a record the next state. *)

State ==
    [tasks |-> tasks, currentFilter |-> currentFilter,
     editingTaskId |-> editingTaskId, taskIdCounter |-> taskIdCounter,
     pendingAction |-> pendingAction, modalShown |-> modalShown,
     inputError |-> inputError, storage |-> storage,
     storageFull |-> storageFull, timers |-> timers, dom |-> dom,
     domEdit |-> domEdit, uncaught |-> uncaught]

Becomes(st) ==
    /\ tasks' = st.tasks
    /\ currentFilter' = st.currentFilter
    /\ editingTaskId' = st.editingTaskId
    /\ taskIdCounter' = st.taskIdCounter
    /\ pendingAction' = st.pendingAction
    /\ modalShown' = st.modalShown
    /\ inputError' = st.inputError
    /\ storage' = st.storage
    /\ storageFull' = st.storageFull
    /\ timers' = st.timers
    /\ dom' = st.dom
    /\ domEdit' = st.domEdit
    /\ uncaught' = st.uncaught

----------------------------------------------------------------------------
(* Persistence: the value stored under the key 'todoApp'.                  *)

\* localStorage.getItem('todoApp') === null
NoBlob ==
    [kind |-> "missing", tasksType |-> "undefined", tasks |-> <<>>,
     counterType |-> "undefined", taskIdCounter |-> 0, lastSaved |-> NULL]

\* a stored text that JSON.parse rejects
Unparseable == [NoBlob EXCEPT !.kind = "garbage"]

\* variant of JsonEntry that writes the id as a string, as in "id": "1"
\* (C22 fails with it)
JsonEntryIdAsString(task) ==
    [truthy |-> TRUE, idType |-> "string", textType |-> "string",
     value |-> task]

\* one element of the "tasks" array in the JSON text, with what loadTasks
\* looks at: whether the element is truthy, and the typeof of its two fields
JsonEntry(task) ==
    [truthy |-> TRUE, idType |-> "number", textType |-> "string",
     value |-> task]

\* JSON.stringify(dataToSave): every field of a task is a number, a string,
\* a boolean or null, which JSON text represents exactly
Stringify(ts, counter) ==
    [kind |-> "json",
     tasksType |-> "array",
     tasks |-> [i \in 1..Len(ts) |-> JsonEntry(ts[i])],
     counterType |-> "number",
     taskIdCounter |-> counter,
     lastSaved |-> Now]

\* variant of the filter test of loadTasks without the test of the id (C24
\* fails with it)
IsValidEntryByText(entry) ==
    entry.truthy /\ entry.textType = "string"

\* the test of the filter in loadTasks
IsValidEntry(entry) ==
    entry.truthy /\ entry.textType = "string" /\ entry.idType = "number"

\* showError
showError(st, message) == [st EXCEPT !.inputError = message]

\* clearError
clearError(st) == [st EXCEPT !.inputError = NoError]

\* variant of saveTasks without try and catch: the exception of setItem
\* leaves the method (C26 fails with it)
saveTasksWithoutCatch(st) ==
    IF st.storageFull
    THEN [st EXCEPT !.uncaught = TRUE]
    ELSE [st EXCEPT !.storage = Stringify(st.tasks, st.taskIdCounter)]

\* saveTasks: setItem throws when the storage is full, and the catch shows
\* the message
saveTasks(st) ==
    IF st.storageFull
    THEN showError(st, MsgSaveFailed)
    ELSE [st EXCEPT !.storage = Stringify(st.tasks, st.taskIdCounter)]

\* variant of loadTasks that takes the tasks and not the counter (C20 fails
\* with it)
loadTasksWithoutCounter(st) ==
    IF st.storage.kind = "json"
    THEN LET kept == SelectSeq(st.storage.tasks, IsValidEntry)
         IN  [st EXCEPT !.tasks = [i \in 1..Len(kept) |-> kept[i].value],
                        !.taskIdCounter = 0]
    ELSE st

\* data.tasks || [] and data.taskIdCounter || 0 in loadTasks
TasksOrEmpty(blob) ==
    IF blob.tasksType = "undefined" THEN <<>> ELSE blob.tasks

CounterOrZero(blob) ==
    IF blob.counterType = "undefined" THEN 0 ELSE blob.taskIdCounter

\* variant of loadTasks without try and catch: the exception of JSON.parse
\* or of this.tasks.filter leaves the constructor (C23 fails with it)
loadTasksWithoutCatch(st) ==
    IF st.storage.kind = "missing"
    THEN st
    ELSE IF st.storage.kind = "json"
            /\ st.storage.tasksType \in {"array", "undefined"}
    THEN LET kept == SelectSeq(TasksOrEmpty(st.storage), IsValidEntry)
         IN  [st EXCEPT !.tasks = [i \in 1..Len(kept) |-> kept[i].value],
                        !.taskIdCounter = CounterOrZero(st.storage)]
    ELSE [st EXCEPT !.uncaught = TRUE]

\* loadTasks, on the object the constructor has just filled: nothing is
\* done without a stored text; JSON.parse throws on a text that is not JSON,
\* and filter is not a function of a "tasks" that is not an array; the catch
\* empties the collection and zeroes the counter
loadTasks(st) ==
    IF st.storage.kind = "missing"
    THEN st
    ELSE IF st.storage.kind = "json"
            /\ st.storage.tasksType \in {"array", "undefined"}
    THEN LET kept == SelectSeq(TasksOrEmpty(st.storage), IsValidEntry)
         IN  [st EXCEPT !.tasks = [i \in 1..Len(kept) |-> kept[i].value],
                        !.taskIdCounter = CounterOrZero(st.storage)]
    ELSE [st EXCEPT !.tasks = <<>>, !.taskIdCounter = 0]

----------------------------------------------------------------------------
(* Rendering: which task ids have an element in the task list (dom), and   *)
(* which of these elements hold an edit input (domEdit).                   *)

\* isTaskVisible
isTaskVisible(st, task) ==
    CASE st.currentFilter = "active" -> ~task.completed
      [] st.currentFilter = "completed" -> task.completed
      [] OTHER -> TRUE

\* variant of getFilteredTasks with the two filters exchanged (C17 fails
\* with it)
getFilteredTasksSwapped(st) ==
    CASE st.currentFilter = "active" -> SelectSeq(st.tasks, IsCompleted)
      [] st.currentFilter = "completed" -> SelectSeq(st.tasks, IsActive)
      [] OTHER -> st.tasks

\* getFilteredTasks
getFilteredTasks(st) ==
    CASE st.currentFilter = "active" -> SelectSeq(st.tasks, IsActive)
      [] st.currentFilter = "completed" -> SelectSeq(st.tasks, IsCompleted)
      [] OTHER -> st.tasks

\* renderTask: the element of the task is made anew, with an edit input when
\* the task is the one being edited, and replaces the old one or is appended
renderTask(st, taskId) ==
    IF FindIndex(st.tasks, taskId) = -1
    THEN st
    ELSE [st EXCEPT !.dom = @ \cup { taskId },
                    !.domEdit = IF st.editingTaskId = taskId
                                THEN @ \cup { taskId }
                                ELSE @ \ { taskId }]

\* forEach(task => renderTask(task.id)) on the emptied list: renderTask
\* touches the element of its own task only, so the list after the loop holds
\* what each call makes on the emptied list
renderEach(st, shown) ==
    LET made == [i \in 1..Len(shown) |-> renderTask(st, shown[i].id)]
    IN  [st EXCEPT !.dom = UNION { made[i].dom : i \in 1..Len(shown) },
                   !.domEdit = UNION { made[i].domEdit : i \in 1..Len(shown) }]

\* renderTasks: the list is emptied and every filtered task is rendered
renderTasks(st) ==
    renderEach([st EXCEPT !.dom = {}, !.domEdit = {}], getFilteredTasks(st))

\* render (the statistics, the empty state and the buttons are not modelled)
render(st) == renderTasks(st)

----------------------------------------------------------------------------
(* The state after construction: init() on an empty localStorage.          *)

NoAction == [kind |-> "none", id |-> NoTask]

\* the constructor followed by init(): loadTasks, bindEvents, render
construct(blob, full) ==
    render(loadTasks(
        [tasks |-> <<>>, currentFilter |-> "all", editingTaskId |-> NoTask,
         taskIdCounter |-> 0, pendingAction |-> NoAction,
         modalShown |-> FALSE, inputError |-> NoError, storage |-> blob,
         storageFull |-> full, timers |-> <<>>, dom |-> {},
         domEdit |-> {}, uncaught |-> FALSE]))

InitialState == construct(NoBlob, FALSE)

Init ==
    /\ tasks = InitialState.tasks
    /\ currentFilter = InitialState.currentFilter
    /\ editingTaskId = InitialState.editingTaskId
    /\ taskIdCounter = InitialState.taskIdCounter
    /\ pendingAction = InitialState.pendingAction
    /\ modalShown = InitialState.modalShown
    /\ inputError = InitialState.inputError
    /\ storage = InitialState.storage
    /\ storageFull = InitialState.storageFull
    /\ timers = InitialState.timers
    /\ dom = InitialState.dom
    /\ domEdit = InitialState.domEdit
    /\ uncaught = InitialState.uncaught
    /\ issued = <<>>

----------------------------------------------------------------------------
(* The methods.                                                            *)

\* variant of the duplicate check without toLowerCase (C4 fails with it)
HasDuplicateExact(ts, text) ==
    \E i \in 1..Len(ts) : ts[i].text = text

\* the test of the duplicate check in validateTaskInput
HasDuplicate(ts, text) ==
    \E i \in 1..Len(ts) : ToLowerCase(ts[i].text) = ToLowerCase(text)

\* variant of validateTaskInput with text.length >= 100 (C6 fails with it)
validateTaskInputAt100(ts, text) ==
    IF text = <<>> THEN MsgEmpty
    ELSE IF Length(text) >= MaxLen THEN MsgTooLong
    ELSE IF \E i \in 1..Len(ts) : ToLowerCase(ts[i].text) = ToLowerCase(text)
    THEN MsgDuplicate
    ELSE NoError

\* validateTaskInput: the message it shows, NoError when it returns true
validateTaskInput(ts, text) ==
    IF text = <<>> THEN MsgEmpty
    ELSE IF Length(text) > MaxLen THEN MsgTooLong
    ELSE IF HasDuplicate(ts, text) THEN MsgDuplicate
    ELSE NoError

\* variant of the task literal that takes the counter before the increment,
\* as with this.taskIdCounter++ (C2 fails with it)
newTaskPostIncrement(id, text, deadline) ==
    [id |-> id - 1, text |-> text, completed |-> FALSE, createdAt |-> Now,
     completedAt |-> NULL,
     deadline |-> IF deadline = "" THEN NULL ELSE deadline]

\* the task object literal of addTask
newTask(id, text, deadline) ==
    [id |-> id, text |-> text, completed |-> FALSE, createdAt |-> Now,
     completedAt |-> NULL,
     deadline |-> IF deadline = "" THEN NULL ELSE deadline]

\* variant of addTask that numbers the new task by the length of the array,
\* as with id: this.tasks.length + 1 (C36 fails with it)
addTaskByLength(st, raw, deadline) ==
    LET text == Trim(raw)
        verdict == validateTaskInput(st.tasks, text)
        id == Len(st.tasks) + 1
    IN  IF verdict # NoError
        THEN showError(st, verdict)
        ELSE render(saveTasks(clearError(
                 [st EXCEPT !.taskIdCounter = id,
                            !.tasks = Append(@, newTask(id, text, deadline))])))

\* addTask, with the value of the task input and of the deadline input
addTask(st, raw, deadline) ==
    LET text == Trim(raw)
        verdict == validateTaskInput(st.tasks, text)
        id == st.taskIdCounter + 1
    IN  IF verdict # NoError
        THEN showError(st, verdict)
        ELSE render(saveTasks(clearError(
                 [st EXCEPT !.taskIdCounter = id,
                            !.tasks = Append(@, newTask(id, text, deadline))])))

\* variant of toggleTask's assignments that keeps completedAt when the task
\* becomes active (C10 fails with it)
toggledKeepingStamp(task) ==
    [task EXCEPT !.completed = ~task.completed,
                 !.completedAt = IF ~task.completed THEN Now ELSE @]

\* variant of toggleTask's assignments without the second one (C11 fails
\* with it)
toggledFlagOnly(task) ==
    [task EXCEPT !.completed = ~task.completed]

\* variant of toggleTask's assignments that stamps completedAt in both
\* directions (C12 fails with it)
toggledStampingBoth(task) ==
    [task EXCEPT !.completed = ~task.completed, !.completedAt = Now]

\* the two assignments of toggleTask
toggled(task) ==
    [task EXCEPT !.completed = ~task.completed,
                 !.completedAt = IF ~task.completed THEN Now ELSE NULL]

\* variant of toggleTask that moves the toggled task to the end of the array
\* (C37 fails with it)
toggleTaskMovingToEnd(st, taskId) ==
    LET idx == FindIndex(st.tasks, taskId)
    IN  IF idx > -1
        THEN render(saveTasks(
                 [st EXCEPT !.tasks = Append(Splice(@, idx),
                                             toggled(st.tasks[idx + 1]))]))
        ELSE st

\* toggleTask
toggleTask(st, taskId) ==
    LET idx == FindIndex(st.tasks, taskId)
    IN  IF idx > -1
        THEN render(saveTasks([st EXCEPT !.tasks[idx + 1] = toggled(@)]))
        ELSE st

\* variant of the three statements without this.saveTasks() (C21 fails with
\* it)
removeAtUnsaved(st, taskIndex) ==
    render([st EXCEPT !.tasks = Splice(@, taskIndex)])

\* the three statements that deleteTask runs at once or from its timer:
\* this.tasks.splice(taskIndex, 1); this.saveTasks(); this.render()
removeAt(st, taskIndex) ==
    render(saveTasks([st EXCEPT !.tasks = Splice(@, taskIndex)]))

\* variant of deleteTask without the test taskIndex > -1: splice(-1, 1)
\* takes out the last element of the array (C16 fails with it)
deleteTaskUnguarded(st, taskId) ==
    LET taskIndex == FindIndex(st.tasks, taskId)
    IN  IF taskId \in st.dom
        THEN [st EXCEPT !.timers = Append(@, [taskIndex |-> taskIndex,
                                              taskId |-> taskId])]
        ELSE IF taskIndex > -1 THEN removeAt(st, taskIndex)
        ELSE render(saveTasks(
                 [st EXCEPT !.tasks = SubSeq(@, 1, Len(@) - 1)]))

\* deleteTask: with an element in the list the removal waits for the timer,
\* which keeps the index (and the id) of the call
deleteTask(st, taskId) ==
    LET taskIndex == FindIndex(st.tasks, taskId)
    IN  IF taskIndex > -1
        THEN IF taskId \in st.dom
             THEN [st EXCEPT !.timers = Append(@, [taskIndex |-> taskIndex,
                                                   taskId |-> taskId])]
             ELSE removeAt(st, taskIndex)
        ELSE st

\* the callback that deleteTask gave to setTimeout(..., 250); the callbacks
\* have the same delay and run in the order in which they were scheduled
removeTimer(st) ==
    removeAt([st EXCEPT !.timers = Tail(@)], Head(st.timers).taskIndex)

\* variant of cancelEdit that keeps this.editingTaskId (C30 fails with it)
cancelEditKeepingId(st) == render(clearError(st))

\* cancelEdit
cancelEdit(st) ==
    render(clearError([st EXCEPT !.editingTaskId = NoTask]))

\* variant of editTask without the cancelEdit of the edit in progress (C28
\* fails with it)
editTaskWithoutCancel(st, taskId) ==
    renderTask([st EXCEPT !.editingTaskId = taskId], taskId)

\* editTask
editTask(st, taskId) ==
    LET s1 == IF st.editingTaskId # NoTask THEN cancelEdit(st) ELSE st
    IN  renderTask([s1 EXCEPT !.editingTaskId = taskId], taskId)

\* variant of the duplicate test of saveEdit without toLowerCase (C3 fails
\* with it)
IsDuplicateExact(ts, taskId, newText) ==
    \E i \in 1..Len(ts) : ts[i].id # taskId /\ ts[i].text = newText

\* variant of the duplicate test of saveEdit that does not leave out the
\* task being edited (C15 fails with it)
IsDuplicateOfAny(ts, taskId, newText) ==
    \E i \in 1..Len(ts) : ToLowerCase(ts[i].text) = ToLowerCase(newText)

\* the duplicate test of saveEdit
IsDuplicate(ts, taskId, newText) ==
    \E i \in 1..Len(ts) :
        /\ ts[i].id # taskId
        /\ ToLowerCase(ts[i].text) = ToLowerCase(newText)

\* variant of the tests of saveEdit without the length test (C14 fails with
\* it)
validateEditNoLimit(ts, taskId, newText) ==
    IF newText = <<>> THEN MsgEditEmpty
    ELSE IF \E i \in 1..Len(ts) :
                /\ ts[i].id # taskId
                /\ ToLowerCase(ts[i].text) = ToLowerCase(newText)
    THEN MsgDuplicate
    ELSE NoError

\* the message saveEdit shows, NoError when it goes on to the update
validateEdit(ts, taskId, newText) ==
    IF newText = <<>> THEN MsgEditEmpty
    ELSE IF Length(newText) > MaxLen THEN MsgTooLong
    ELSE IF IsDuplicate(ts, taskId, newText) THEN MsgDuplicate
    ELSE NoError

\* variant of saveEdit that puts a new task object in the place of the old
\* one (C13 fails with it)
saveEditReplacing(st, taskId, raw) ==
    LET newText == Trim(raw)
        idx == FindIndex(st.tasks, taskId)
    IN  IF taskId \notin st.domEdit THEN st
        ELSE IF newText = <<>> THEN showError(st, MsgEditEmpty)
        ELSE IF Length(newText) > MaxLen THEN showError(st, MsgTooLong)
        ELSE IF \E i \in 1..Len(st.tasks) :
                    /\ st.tasks[i].id # taskId
                    /\ ToLowerCase(st.tasks[i].text) = ToLowerCase(newText)
        THEN showError(st, MsgDuplicate)
        ELSE IF idx > -1
        THEN render(saveTasks(clearError(
                 [st EXCEPT !.tasks[idx + 1] =
                                [id |-> taskId, text |-> newText,
                                 completed |-> FALSE, createdAt |-> Now,
                                 completedAt |-> NULL, deadline |-> NULL],
                            !.editingTaskId = NoTask])))
        ELSE st

\* saveEdit, with the value of the edit input of the task's element
saveEdit(st, taskId, raw) ==
    LET newText == Trim(raw)
        verdict == validateEdit(st.tasks, taskId, newText)
        idx == FindIndex(st.tasks, taskId)
    IN  IF taskId \notin st.domEdit THEN st
        ELSE IF verdict # NoError THEN showError(st, verdict)
        ELSE IF idx > -1
        THEN render(saveTasks(clearError(
                 [st EXCEPT !.tasks[idx + 1].text = newText,
                            !.editingTaskId = NoTask])))
        ELSE st

\* setFilter
setFilter(st, filter) ==
    render([st EXCEPT !.currentFilter = filter])

\* variant of clearCompleted with the test of its filter negated (C19 fails
\* with it)
clearCompletedNegated(st) ==
    render(saveTasks([st EXCEPT !.tasks = SelectSeq(@, IsCompleted)]))

\* clearCompleted
clearCompleted(st) ==
    render(saveTasks([st EXCEPT !.tasks = SelectSeq(@, IsActive)]))

\* variant of clearAll that also starts the ids anew (C1 fails with it)
clearAllFromOne(st) ==
    render(saveTasks([st EXCEPT !.tasks = <<>>, !.editingTaskId = NoTask,
                                !.taskIdCounter = 0]))

\* clearAll
clearAll(st) ==
    render(saveTasks([st EXCEPT !.tasks = <<>>, !.editingTaskId = NoTask]))

\* the closures that the click handlers hand to confirmAction
DeleteAction(taskId) == [kind |-> "deleteTask", id |-> taskId]

ClearCompletedAction == [kind |-> "clearCompleted", id |-> NoTask]

ClearAllAction == [kind |-> "clearAll", id |-> NoTask]

PendingActions ==
    { DeleteAction(taskId) : taskId \in TaskIds }
        \cup { ClearCompletedAction, ClearAllAction }

\* this.pendingAction(): the call of the closure
callPending(st) ==
    CASE st.pendingAction.kind = "deleteTask" ->
             deleteTask(st, st.pendingAction.id)
      [] st.pendingAction.kind = "clearCompleted" -> clearCompleted(st)
      [] st.pendingAction.kind = "clearAll" -> clearAll(st)
      [] OTHER -> st

\* showModal
showModal(st) == [st EXCEPT !.modalShown = TRUE]

\* variant of hideModal that keeps this.pendingAction (C27 fails with it)
hideModalKeepingAction(st) == [st EXCEPT !.modalShown = FALSE]

\* hideModal
hideModal(st) == [st EXCEPT !.modalShown = FALSE, !.pendingAction = NoAction]

\* confirmAction
confirmAction(st, action) == showModal([st EXCEPT !.pendingAction = action])

\* variant of executeConfirmedAction that closes the modal and keeps
\* this.pendingAction (C38 fails with it)
executeConfirmedActionKeeping(st) ==
    [callPending(st) EXCEPT !.modalShown = FALSE]

\* executeConfirmedAction
executeConfirmedAction(st) ==
    hideModal(IF st.pendingAction # NoAction
              THEN [callPending(st) EXCEPT !.pendingAction = NoAction]
              ELSE st)

\* the keys of a keydown event that the model tells apart
KeyInputs == { "Escape", "Enter" }

\* handleGlobalKeydown: Escape closes the modal or, without a modal, ends
\* the edit; Ctrl+Enter moves the focus only
handleGlobalKeydown(st, key) ==
    IF key = "Escape"
    THEN IF st.modalShown THEN hideModal(st)
         ELSE IF st.editingTaskId # NoTask THEN cancelEdit(st)
         ELSE st
    ELSE st

----------------------------------------------------------------------------
(* Numbers.                                                                *)

\* JavaScript numbers are IEEE 754 doubles.  A positive double is held as
\* [m |-> mantissa, e |-> exponent], with value m * 2^(-e) and a mantissa of
\* at most 53 bits; the mantissa is an array of four limbs of 20 bits, least
\* significant first, since the integers of the checker have 32 bits.
RECURSIVE Pow2(_)
Pow2(k) == IF k = 0 THEN 1 ELSE 2 * Pow2(k - 1)

Base == Pow2(20)

BigOf(n) == << n, 0, 0, 0 >>

\* x * k for k <= 1024
RECURSIVE MulFrom(_, _, _, _)
MulFrom(x, k, i, carry) ==
    IF i > Len(x) THEN <<>>
    ELSE LET v == x[i] * k + carry
         IN  << v % Base >> \o MulFrom(x, k, i + 1, v \div Base)

MulSmall(x, k) == MulFrom(x, k, 1, 0)

\* quotient and remainder of x by d for d <= 1024
RECURSIVE DivFrom(_, _, _, _)
DivFrom(x, d, i, rem) ==
    IF i = 0 THEN [q |-> <<>>, r |-> rem]
    ELSE LET v == rem * Base + x[i]
             rest == DivFrom(x, d, i - 1, v % d)
         IN  [q |-> Append(rest.q, v \div d), r |-> rest.r]

DivSmall(x, d) == DivFrom(x, d, Len(x), 0)

\* x * 2^k and the whole part of x / 2^k
RECURSIVE ShiftLeft(_, _)
ShiftLeft(x, k) ==
    IF k = 0 THEN x
    ELSE IF k > 10 THEN ShiftLeft(MulSmall(x, 1024), k - 10)
    ELSE MulSmall(x, Pow2(k))

RECURSIVE ShiftRight(_, _)
ShiftRight(x, k) ==
    IF k = 0 THEN x
    ELSE IF k > 10 THEN ShiftRight(DivSmall(x, 1024).q, k - 10)
    ELSE DivSmall(x, Pow2(k)).q

\* x / d rounded to the nearest whole number, a tie to the even one: the
\* rounding of every arithmetic operation on doubles
DivNearestEven(x, d) ==
    LET qr == DivSmall(x, d)
        up == 2 * qr.r > d \/ (2 * qr.r = d /\ qr.q[1] % 2 = 1)
    IN  IF up THEN MulFrom(qr.q, 1, 1, 1) ELSE qr.q

\* the least e with c * 2^e >= t
RECURSIVE ExponentOf(_, _, _)
ExponentOf(c, t, e) ==
    IF c * Pow2(e) >= t THEN e ELSE ExponentOf(c, t, e + 1)

\* completed / total for 1 <= completed <= total <= 1024
FloatDivide(c, t) ==
    LET e == ExponentOf(c, t, 0)
    IN  [m |-> DivNearestEven(ShiftLeft(BigOf(c), 52 + e), t), e |-> 52 + e]

\* x * 100 for a double x with a mantissa of 53 bits: the product has 59 or
\* 60 bits and is rounded to 53
FloatTimes100(x) ==
    LET product == MulSmall(x.m, 100)
        s == IF product[3] >= Pow2(19) THEN 7 ELSE 6
    IN  [m |-> DivNearestEven(product, Pow2(s)), e |-> x.e - s]

\* Math.round of a positive double below 1024: the nearest whole number, a
\* tie to the greater one
MathRound(x) ==
    LET twice == ShiftRight(x.m, x.e - 1)[1]
    IN  (twice \div 2) + (twice % 2)

\* Math.round((completed / total) * 100)
RoundedRate(c, t) ==
    IF c = 0 THEN 0 ELSE MathRound(FloatTimes100(FloatDivide(c, t)))

\* getStats
getStats(st) ==
    LET total == Len(st.tasks)
        completed == Len(SelectSeq(st.tasks, IsCompleted))
    IN  [total |-> total,
         completed |-> completed,
         active |-> total - completed,
         completionRate |-> IF total > 0
                            THEN RoundedRate(completed, total)
                            ELSE 0]

----------------------------------------------------------------------------
(* The actions.  issued is the log of the ids that addTask has given to    *)
(* new tasks, in the order in which it gave them.                          *)

AddTask(raw, deadline) ==
    LET post == addTask(State, raw, deadline)
    IN  /\ post.taskIdCounter <= MaxId
        /\ Becomes(post)
        /\ issued' = IF Len(post.tasks) > Len(tasks)
                     THEN Append(issued, post.tasks[Len(post.tasks)].id)
                     ELSE issued

ToggleTask(taskId) ==
    /\ Becomes(toggleTask(State, taskId))
    /\ UNCHANGED issued

DeleteTask(taskId) ==
    LET post == deleteTask(State, taskId)
    IN  /\ Len(post.timers) <= MaxTimers
        /\ Becomes(post)
        /\ UNCHANGED issued

RemoveTimer ==
    /\ timers # <<>>
    /\ Becomes(removeTimer(State))
    /\ UNCHANGED issued

EditTask(taskId) ==
    /\ Becomes(editTask(State, taskId))
    /\ UNCHANGED issued

\* what the edit input of a task's element can hold when saveEdit is called;
\* without such an element there is no input and nothing is read
EditValues(taskId) ==
    IF taskId \in domEdit THEN Inputs ELSE { <<>> }

SaveEdit(taskId, raw) ==
    /\ Becomes(saveEdit(State, taskId, raw))
    /\ UNCHANGED issued

CancelEdit ==
    /\ Becomes(cancelEdit(State))
    /\ UNCHANGED issued

SetFilter(filter) ==
    /\ Becomes(setFilter(State, filter))
    /\ UNCHANGED issued

ClearCompleted ==
    /\ Becomes(clearCompleted(State))
    /\ UNCHANGED issued

ClearAll ==
    /\ Becomes(clearAll(State))
    /\ UNCHANGED issued

\* the page is loaded again: a new TodoApp is constructed and init() loads
\* what the key holds; the timers of the old page are gone
Reload ==
    /\ Becomes(construct(storage, storageFull))
    /\ UNCHANGED issued

Next ==
    \/ \E raw \in Inputs, deadline \in DeadlineInputs : AddTask(raw, deadline)
    \/ \E taskId \in TaskIds : ToggleTask(taskId)
    \/ \E taskId \in TaskIds : DeleteTask(taskId)
    \/ RemoveTimer
    \/ \E taskId \in TaskIds : EditTask(taskId)
    \/ \E taskId \in TaskIds :
           \E raw \in EditValues(taskId) : SaveEdit(taskId, raw)
    \/ CancelEdit
    \/ \E filter \in FilterInputs : SetFilter(filter)
    \/ ClearCompleted
    \/ ClearAll
    \/ Reload

Spec == Init /\ [][Next]_vars

----------------------------------------------------------------------------
(* The program in a browser whose storage fills up and is freed again:     *)
(* localStorage.setItem throws while the quota is used up.                 *)

StorageFills ==
    /\ ~storageFull
    /\ Becomes([State EXCEPT !.storageFull = TRUE])
    /\ UNCHANGED issued

StorageFrees ==
    /\ storageFull
    /\ Becomes([State EXCEPT !.storageFull = FALSE])
    /\ UNCHANGED issued

\* the texts typed in the specifications below: "", " a ", "A" and "b"
FewInputs ==
    { <<>>,
      << Run(" ", 1), Run("a", 1), Run(" ", 1) >>,
      << Run("A", 1) >>,
      << Run("b", 1) >> }

\* addTask while the log of the issued ids has room: a reload after a
\* failed write brings an old counter back, so the log is capped
AddTaskLogged(raw, deadline) ==
    /\ Len(issued) < MaxIssued
    /\ AddTask(raw, deadline)

\* the steps of the program without the choice of a filter
NextFew ==
    \/ \E raw \in FewInputs, deadline \in DeadlineInputs :
           AddTaskLogged(raw, deadline)
    \/ \E taskId \in TaskIds : ToggleTask(taskId)
    \/ \E taskId \in TaskIds : DeleteTask(taskId)
    \/ RemoveTimer
    \/ \E taskId \in TaskIds : EditTask(taskId)
    \/ \E taskId \in TaskIds :
           \E raw \in EditValues(taskId) \cap FewInputs :
               SaveEdit(taskId, raw)
    \/ CancelEdit
    \/ ClearCompleted
    \/ ClearAll
    \/ Reload

NextQuota ==
    \/ NextFew
    \/ StorageFills
    \/ StorageFrees

SpecQuota == Init /\ [][NextQuota]_vars

----------------------------------------------------------------------------
(* The program opened on a stored value that it has not written itself:    *)
(* nothing, a text that is not JSON, JSON without a "tasks" array, and     *)
(* JSON whose "tasks" hold elements that are not tasks and whose           *)
(* "taskIdCounter" is missing or behind the ids.                           *)

\* elements of a stored "tasks" array: two tasks, null, a task whose text is
\* a number, a task whose id is a string and a task without a text
StoredFirst == JsonEntry(newTask(1, << Run("A", 1) >>, ""))

StoredSecond == JsonEntry(toggled(newTask(2, << Run("b", 1) >>, "")))

StoredNull == [JsonEntry(newTask(1, <<>>, "")) EXCEPT !.truthy = FALSE]

StoredTextNumber ==
    [JsonEntry(newTask(1, <<>>, "")) EXCEPT !.textType = "number"]

StoredIdString ==
    [JsonEntry(newTask(2, << Run("a", 1) >>, "")) EXCEPT !.idType = "string"]

StoredNoText ==
    [JsonEntry(newTask(2, <<>>, "")) EXCEPT !.textType = "undefined"]

\* two tasks that the program cannot have saved: one with the empty string
\* as text and one with a text of 101 characters
StoredEmptyText == JsonEntry(newTask(1, <<>>, ""))

StoredLongText == JsonEntry(newTask(2, << Run("x", MaxLen + 1) >>, ""))

\* the "tasks" arrays of the stored values
StoredArrays ==
    { <<>>,
      << StoredEmptyText, StoredLongText >>,
      << StoredFirst >>,
      << StoredSecond, StoredNull, StoredFirst >>,
      << StoredTextNumber, StoredSecond, StoredIdString >>,
      << StoredFirst, StoredNoText, StoredSecond >>,
      << StoredNull, StoredIdString >> }

\* the stored values that are JSON of an object
JsonBlobs ==
    { [kind |-> "json", tasksType |-> tasksType, tasks |-> array,
       counterType |-> counterType, taskIdCounter |-> counter,
       lastSaved |-> Now] :
          tasksType \in {"array", "undefined", "number"},
          array \in StoredArrays,
          counterType \in {"number", "undefined"},
          counter \in 0..MaxId }

BlobInputs ==
    { NoBlob, Unparseable }
    \cup { blob \in JsonBlobs :
               /\ blob.tasksType # "array" => blob.tasks = <<>>
               /\ blob.counterType = "undefined" => blob.taskIdCounter = 0 }

InitBlob ==
    \E blob \in BlobInputs :
        LET st == construct(blob, FALSE)
        IN  /\ tasks = st.tasks
            /\ currentFilter = st.currentFilter
            /\ editingTaskId = st.editingTaskId
            /\ taskIdCounter = st.taskIdCounter
            /\ pendingAction = st.pendingAction
            /\ modalShown = st.modalShown
            /\ inputError = st.inputError
            /\ storage = st.storage
            /\ storageFull = st.storageFull
            /\ timers = st.timers
            /\ dom = st.dom
            /\ domEdit = st.domEdit
            /\ uncaught = st.uncaught
            /\ issued = <<>>

SpecBlob == InitBlob /\ [][NextFew]_vars

----------------------------------------------------------------------------
(* The program as the page drives it: delete, clear completed and clear    *)
(* all are reached through the confirmation modal only.                    *)

\* a click on the delete button of a task's element; the element of a task
\* in edit mode has no such button
ClickDelete(taskId) ==
    /\ taskId \in dom \ domEdit
    /\ Becomes(confirmAction(State, DeleteAction(taskId)))
    /\ UNCHANGED issued

ClickClearCompleted ==
    /\ Becomes(confirmAction(State, ClearCompletedAction))
    /\ UNCHANGED issued

ClickClearAll ==
    /\ Becomes(confirmAction(State, ClearAllAction))
    /\ UNCHANGED issued

ClickYes ==
    LET post == executeConfirmedAction(State)
    IN  /\ modalShown
        /\ Len(post.timers) <= MaxTimers
        /\ Becomes(post)
        /\ UNCHANGED issued

ClickNo ==
    /\ modalShown
    /\ Becomes(hideModal(State))
    /\ UNCHANGED issued

\* a click on the backdrop of the modal
ClickOutside ==
    /\ modalShown
    /\ Becomes(hideModal(State))
    /\ UNCHANGED issued

KeyDown(key) ==
    /\ Becomes(handleGlobalKeydown(State, key))
    /\ UNCHANGED issued

\* the steps of one session of the page, from its load to the next load
NextSession ==
    \/ \E raw \in FewInputs, deadline \in DeadlineInputs :
           AddTaskLogged(raw, deadline)
    \/ \E taskId \in TaskIds : ToggleTask(taskId)
    \/ \E taskId \in TaskIds : ClickDelete(taskId)
    \/ ClickClearCompleted
    \/ ClickClearAll
    \/ ClickYes
    \/ ClickNo
    \/ ClickOutside
    \/ \E key \in KeyInputs : KeyDown(key)
    \/ RemoveTimer
    \/ \E taskId \in TaskIds : EditTask(taskId)
    \/ \E taskId \in TaskIds :
           \E raw \in EditValues(taskId) \cap FewInputs :
               SaveEdit(taskId, raw)
    \/ CancelEdit

NextUI ==
    \/ NextSession
    \/ Reload

SpecUI == Init /\ [][NextUI]_vars

\* one session of the page with the guarantee of setTimeout: a callback that
\* is scheduled runs; the user owes no step
SpecSessionFair == Init /\ [][NextSession]_vars /\ WF_vars(RemoveTimer)

----------------------------------------------------------------------------
(* The statistics: the page opened on a saved store of up to MaxStats      *)
(* tasks of which the first ones are completed, and check boxes ticked so  *)
(* that the completed tasks stay the first ones.                           *)

StatsTasks(total, completed) ==
    [i \in 1..total |->
        IF i <= completed
        THEN toggled(newTask(i, << Run("x", i) >>, ""))
        ELSE newTask(i, << Run("x", i) >>, "")]

InitStats ==
    \E total \in 0..MaxStats :
        \E completed \in 0..total :
            LET st == construct(
                          Stringify(StatsTasks(total, completed), total),
                          FALSE)
            IN  /\ tasks = st.tasks
                /\ currentFilter = st.currentFilter
                /\ editingTaskId = st.editingTaskId
                /\ taskIdCounter = st.taskIdCounter
                /\ pendingAction = st.pendingAction
                /\ modalShown = st.modalShown
                /\ inputError = st.inputError
                /\ storage = st.storage
                /\ storageFull = st.storageFull
                /\ timers = st.timers
                /\ dom = st.dom
                /\ domEdit = st.domEdit
                /\ uncaught = st.uncaught
                /\ issued = <<>>

\* the last completed task and the first active one
BoundaryIds ==
    LET completed == Len(SelectSeq(tasks, IsCompleted))
    IN  { completed, completed + 1 } \cap { tasks[i].id : i \in 1..Len(tasks) }

NextStats == \E taskId \in BoundaryIds : ToggleTask(taskId)

SpecStats == InitStats /\ [][NextStats]_vars

----------------------------------------------------------------------------
(* The words of the specification, over the state of the model.            *)

Range(seq) == { seq[i] : i \in 1..Len(seq) }

Ids(ts) == { ts[i].id : i \in 1..Len(ts) }

Has(ts, taskId) == taskId \in Ids(ts)

\* the collection with the task of that id taken out, the rest in order
Without(ts, taskId) ==
    LET Other(task) == task.id # taskId IN SelectSeq(ts, Other)

\* the text is empty or holds nothing but white space
IsBlank(raw) == \A i \in 1..Len(raw) : IsSpace(raw[i].c)

SameIgnoringCase(a, b) == ToLowerCase(a) = ToLowerCase(b)

TextTaken(ts, text) ==
    \E i \in 1..Len(ts) : SameIgnoringCase(ts[i].text, text)

\* the text that create accepts: after trimming it is not empty, has at most
\* 100 characters and is not the text of a task, ignoring case
Acceptable(ts, raw) ==
    /\ Trim(raw) # <<>>
    /\ Length(Trim(raw)) <= 100
    /\ ~TextTaken(ts, Trim(raw))

----------------------------------------------------------------------------
(* C1..C10                                                                 *)

\* C1: no two tasks of the store have the same id, and an id that create has
\* issued is never issued again, whatever was deleted, cleared or reloaded
\* in between: the log of the issued ids has no id twice, and the id that
\* the next create would give is not in the log.
UniqueIds ==
    \A i, j \in 1..Len(tasks) : i # j => tasks[i].id # tasks[j].id

NeverIssuedTwice ==
    \A i, j \in 1..Len(issued) : i # j => issued[i] # issued[j]

NextIdIsFresh ==
    \A raw \in Inputs, deadline \in DeadlineInputs :
        LET post == addTask(State, raw, deadline)
        IN  Len(post.tasks) > Len(tasks)
                => post.tasks[Len(post.tasks)].id \notin Range(issued)

\* C1: the ids of the store are unique and no id is issued twice.
C1_IdsUniqueAndNeverReused ==
    UniqueIds /\ NeverIssuedTwice /\ NextIdIsFresh

\* two ids were issued, the task of the first is gone, and the store was
\* saved since
C1_Witness ==
    /\ issued = <<1, 2>>
    /\ Ids(tasks) = { 2 }
    /\ storage = Stringify(tasks, taskIdCounter)

\* C2: create with an acceptable text appends exactly one task at the end,
\* not completed, without completedAt, with the id nextId + 1 and the
\* trimmed text, adds one to nextId and leaves the existing tasks as they
\* were.
C2_CreateAppendsOneTask ==
    \A raw \in Inputs, deadline \in DeadlineInputs :
        Acceptable(tasks, raw) =>
            LET post == addTask(State, raw, deadline)
                n == Len(tasks)
            IN  /\ Len(post.tasks) = n + 1
                /\ SubSeq(post.tasks, 1, n) = tasks
                /\ post.tasks[n + 1].id = taskIdCounter + 1
                /\ post.tasks[n + 1].text = Trim(raw)
                /\ post.tasks[n + 1].completed = FALSE
                /\ post.tasks[n + 1].completedAt = NULL
                /\ post.taskIdCounter = taskIdCounter + 1

\* a task was created behind a task that is completed
C2_Witness ==
    /\ Len(tasks) = 2
    /\ tasks[1].completed
    /\ tasks[2].id = taskIdCounter
    /\ ~tasks[2].completed
    /\ tasks[2].completedAt = NULL
    /\ issued = <<1, 2>>

\* C3: in every reachable state no two tasks have texts that are equal
\* ignoring case.
C3_NoDuplicateTexts ==
    \A i, j \in 1..Len(tasks) :
        i # j => ~SameIgnoringCase(tasks[i].text, tasks[j].text)

\* two tasks are stored, the second is being edited, and the last text
\* that was given was refused as a duplicate
C3_Witness ==
    /\ Len(tasks) = 2
    /\ editingTaskId = tasks[2].id
    /\ inputError = MsgDuplicate

\* C4: create with a text that, trimmed, equals the text of a task ignoring
\* case is refused as a duplicate, and the collection and nextId stay as
\* they were.
C4_DuplicateCreateRefused ==
    \A raw \in Inputs, deadline \in DeadlineInputs :
        TextTaken(tasks, Trim(raw)) =>
            LET post == addTask(State, raw, deadline)
            IN  /\ post.inputError = MsgDuplicate
                /\ post.tasks = tasks
                /\ post.taskIdCounter = taskIdCounter

\* a create was refused as a duplicate of the only task
C4_Witness ==
    /\ inputError = MsgDuplicate
    /\ editingTaskId = NoTask
    /\ Len(tasks) = 1
    /\ taskIdCounter = 1
    /\ issued = <<1>>

\* C5: create with an empty text or one of white space only is refused as
\* empty, and the collection, nextId and the stored value stay as they were.
C5_BlankCreateRefused ==
    \A raw \in Inputs, deadline \in DeadlineInputs :
        IsBlank(raw) =>
            LET post == addTask(State, raw, deadline)
            IN  /\ post.inputError = MsgEmpty
                /\ post.tasks = tasks
                /\ post.taskIdCounter = taskIdCounter
                /\ post.storage = storage

\* a create was refused as empty in a store that holds a task
C5_Witness ==
    /\ inputError = MsgEmpty
    /\ Len(tasks) = 1
    /\ taskIdCounter = 1
    /\ storage = Stringify(tasks, taskIdCounter)

\* C6: create is refused as too long exactly when the trimmed text has more
\* than 100 characters; then the store stays as it was; a trimmed text of
\* exactly 100 characters that is no duplicate is accepted.
C6_TooLongExactlyAbove100 ==
    \A raw \in Inputs, deadline \in DeadlineInputs :
        LET post == addTask(State, raw, deadline)
            length == Length(Trim(raw))
        IN  /\ (post.inputError = MsgTooLong) <=> (length > 100)
            /\ length > 100 =>
                   /\ post.tasks = tasks
                   /\ post.taskIdCounter = taskIdCounter
                   /\ post.storage = storage
            /\ (length = 100 /\ ~TextTaken(tasks, Trim(raw))) =>
                   /\ Len(post.tasks) = Len(tasks) + 1
                   /\ post.tasks[Len(post.tasks)].text = Trim(raw)

\* a text of 100 characters is stored and a text of 101 was refused
C6_Witness ==
    /\ inputError = MsgTooLong
    /\ \E i \in 1..Len(tasks) : Length(tasks[i].text) = 100

\* C7: delete(id) for an id of the store removes exactly the task of that
\* id: the collection afterwards is the collection before without that
\* task, the other tasks as they were and in their order, and nextId is as
\* it was.  The removal of a delete(id) call is the step that takes a task
\* out for it: the call itself when the task has no element in the list,
\* the timer of the call otherwise.
RemovesExactly(taskId) ==
    /\ tasks' = Without(tasks, taskId)
    /\ ~Has(tasks', taskId)
    /\ taskIdCounter' = taskIdCounter

DeleteRemovesThatTask ==
    /\ \A taskId \in TaskIds :
           (Has(tasks, taskId) /\ taskId \notin dom /\ DeleteTask(taskId))
               => RemovesExactly(taskId)
    /\ RemoveTimer => RemovesExactly(Head(timers).taskId)

\* C7: every removal done for a delete(id) call removes exactly task id.
C7_DeleteRemovesExactlyThatTask == [][DeleteRemovesThatTask]_vars

\* C8: delete is atomic and immediate: a task for which delete was called
\* is out of the collection when the call returns, so in no state is a task
\* whose removal waits for the animation still in the collection.
C8_DeleteAtomicAndImmediate ==
    \A i \in 1..Len(timers) : ~Has(tasks, timers[i].taskId)

\* C9: the second of two delete(id) calls fails with NotFound and removes
\* nothing.  A delete(id) call was made before when a removal for the id is
\* pending, or when the id was issued and its task is gone.
DeleteCalledBefore(taskId) ==
    \/ \E i \in 1..Len(timers) : timers[i].taskId = taskId
    \/ taskId \in Range(issued) /\ ~Has(tasks, taskId)

SecondDeleteDoesNothing ==
    \A taskId \in TaskIds :
        (DeleteCalledBefore(taskId) /\ DeleteTask(taskId))
            => tasks' = tasks /\ timers' = timers

\* C9: a second delete(id) call removes nothing.
C9_SecondDeleteNotFound == [][SecondDeleteDoesNothing]_vars

\* C10: toggleCompletion(id) for a task of the store flips the completed
\* flag of that task, gives it a completedAt when it becomes completed and
\* takes the completedAt away when it becomes active, and changes nothing
\* else: the id, the text, the other fields and the position of the task,
\* the other tasks and nextId are as they were.
FlippedOnly(before, after) ==
    /\ after.completed = ~before.completed
    /\ after.completed => after.completedAt # NULL
    /\ ~after.completed => after.completedAt = NULL
    /\ after.id = before.id
    /\ after.text = before.text
    /\ after.createdAt = before.createdAt
    /\ after.deadline = before.deadline

----------------------------------------------------------------------------
(* C11..C20                                                                *)

\* C11: in every reachable state every task of the store has a completedAt
\* exactly when it is completed.
C11_CompletedAtIffCompleted ==
    \A i \in 1..Len(tasks) :
        (tasks[i].completedAt # NULL) <=> tasks[i].completed

\* a completed and an active task, both loaded or toggled, while the active
\* one is being edited
C11_Witness ==
    /\ Len(tasks) = 2
    /\ tasks[1].completed /\ tasks[1].completedAt = Now
    /\ ~tasks[2].completed /\ tasks[2].completedAt = NULL
    /\ editingTaskId = tasks[2].id

\* C12: toggleCompletion(id) twice in a row on a task that is not completed
\* gives a task that is not completed and has no completedAt, and the
\* collection after the two calls is the collection before them.
C12_ToggleTwiceRestores ==
    \A taskId \in TaskIds :
        (\E i \in 1..Len(tasks) :
             tasks[i].id = taskId /\ ~tasks[i].completed) =>
            LET once == toggleTask(State, taskId)
                twice == toggleTask(once, taskId)
            IN  /\ \A i \in 1..Len(tasks) :
                       tasks[i].id = taskId =>
                           /\ once.tasks[i].completed
                           /\ ~twice.tasks[i].completed
                           /\ twice.tasks[i].completedAt = NULL
                /\ twice.tasks = tasks

\* a state that two toggles of its second, active task give back, the first
\* task being completed
C12_Witness ==
    /\ Len(tasks) = 2
    /\ tasks[1].completed
    /\ ~tasks[2].completed
    /\ toggleTask(State, tasks[2].id).tasks[2].completed
    /\ toggleTask(toggleTask(State, tasks[2].id), tasks[2].id) = State

\* update(id, newText) of the specification is saveEdit(id) with newText in
\* the edit input of the task's element: the method takes the text from
\* that input, so there is a call with a text only when the input exists.
CanUpdate(taskId) == taskId \in domEdit /\ Has(tasks, taskId)

\* some task other than the one of the id has that text, ignoring case
TextTakenByOther(ts, taskId, text) ==
    \E i \in 1..Len(ts) :
        ts[i].id # taskId /\ SameIgnoringCase(ts[i].text, text)

\* the text that update accepts for the task of the id
AcceptableEdit(ts, taskId, raw) ==
    /\ Trim(raw) # <<>>
    /\ Length(Trim(raw)) <= 100
    /\ ~TextTakenByOther(ts, taskId, Trim(raw))

\* C13: a successful update(id, newText) replaces the text of the task of
\* that id by the trimmed newText and nothing else: the id, the completed
\* flag, createdAt, completedAt and the position of the task, every other
\* task and nextId are as they were.
C13_UpdateReplacesOnlyText ==
    \A taskId \in TaskIds, raw \in Inputs :
        (CanUpdate(taskId) /\ AcceptableEdit(tasks, taskId, raw)) =>
            LET post == saveEdit(State, taskId, raw)
            IN  /\ Len(post.tasks) = Len(tasks)
                /\ \A i \in 1..Len(tasks) :
                       IF tasks[i].id = taskId
                       THEN /\ post.tasks[i].text = Trim(raw)
                            /\ post.tasks[i].id = tasks[i].id
                            /\ post.tasks[i].completed = tasks[i].completed
                            /\ post.tasks[i].createdAt = tasks[i].createdAt
                            /\ post.tasks[i].completedAt = tasks[i].completedAt
                            /\ post.tasks[i].deadline = tasks[i].deadline
                       ELSE post.tasks[i] = tasks[i]
                /\ post.taskIdCounter = taskIdCounter

\* the second of two tasks is completed and is being edited, and an update
\* of it with the text "b" changes its text
C13_Witness ==
    /\ Len(tasks) = 2
    /\ tasks[2].completed
    /\ CanUpdate(tasks[2].id)
    /\ AcceptableEdit(tasks, tasks[2].id, << Run("b", 1) >>)
    /\ tasks[2].text # << Run("b", 1) >>
    /\ saveEdit(State, tasks[2].id, << Run("b", 1) >>).tasks[2].text
           = << Run("b", 1) >>

\* C14: update(id, newText) fails as empty when the trimmed text is empty,
\* as too long when it has more than 100 characters and as a duplicate when
\* it is the text of another task ignoring case; then the task keeps its
\* text, the collection and nextId are as they were and the edit is still
\* in progress.
RefusedEdit(raw, taskId) ==
    IF Trim(raw) = <<>> THEN MsgEditEmpty
    ELSE IF Length(Trim(raw)) > 100 THEN MsgTooLong
    ELSE IF TextTakenByOther(tasks, taskId, Trim(raw)) THEN MsgDuplicate
    ELSE NoError

C14_UpdateFailuresLeaveState ==
    \A taskId \in TaskIds, raw \in Inputs :
        (CanUpdate(taskId) /\ ~AcceptableEdit(tasks, taskId, raw)) =>
            LET post == saveEdit(State, taskId, raw)
            IN  /\ post.inputError = RefusedEdit(raw, taskId)
                /\ post.inputError # NoError
                /\ post.tasks = tasks
                /\ post.taskIdCounter = taskIdCounter
                /\ post.editingTaskId = editingTaskId
                /\ post.editingTaskId = taskId

\* an update of the first of two tasks was refused as empty and the edit is
\* still in progress
C14_Witness ==
    /\ Len(tasks) = 2
    /\ inputError = MsgEditEmpty
    /\ editingTaskId = tasks[1].id
    /\ tasks[1].id \in domEdit

\* C15: the duplicate check of update leaves out the task being updated:
\* update(id, newText) succeeds when newText is the text of the task of the
\* id, exactly or up to letter case, and no other task has that text.
C15_UpdateToOwnTextSucceeds ==
    \A taskId \in TaskIds, raw \in Inputs :
        \A i \in 1..Len(tasks) :
            ( /\ tasks[i].id = taskId
              /\ CanUpdate(taskId)
              /\ SameIgnoringCase(Trim(raw), tasks[i].text)
              /\ ~TextTakenByOther(tasks, taskId, Trim(raw)) ) =>
                LET post == saveEdit(State, taskId, raw)
                IN  /\ post.tasks[i].text = Trim(raw)
                    /\ post.inputError = NoError
                    /\ post.editingTaskId = NoTask

\* the task with the text "A" is being edited next to another task, and an
\* update with " a " gives it the text "a"
C15_Witness ==
    /\ Len(tasks) = 2
    /\ tasks[1].text = << Run("A", 1) >>
    /\ CanUpdate(tasks[1].id)
    /\ saveEdit(State, tasks[1].id,
                << Run(" ", 1), Run("a", 1), Run(" ", 1) >>).tasks[1].text
           = << Run("a", 1) >>

\* the states after toggleCompletion(id), delete(id) and update(id, text)
\* for every text
CallsWithId(taskId) ==
    { toggleTask(State, taskId), deleteTask(State, taskId) }
        \cup { saveEdit(State, taskId, raw) : raw \in Inputs }

\* the part of the state that a call with an unknown id has to leave alone
LeavesStore(post) ==
    /\ post.tasks = tasks
    /\ post.taskIdCounter = taskIdCounter
    /\ post.editingTaskId = editingTaskId
    /\ post.storage = storage

ViewUnder(filter) == getFilteredTasks([State EXCEPT !.currentFilter = filter])

\* the view holds exactly the tasks of the store that are wanted, each once,
\* in the order of the store
IsViewOf(view, Wanted(_)) ==
    /\ \A i \in 1..Len(view) : view[i] \in Range(tasks) /\ Wanted(view[i])
    /\ \A i \in 1..Len(tasks) :
           Wanted(tasks[i]) => \E j \in 1..Len(view) : view[j] = tasks[i]
    /\ \A i, j \in 1..Len(view) :
           i < j => FindIndex(tasks, view[i].id) < FindIndex(tasks, view[j].id)

\* C17: filteredView() returns, in the order of the store, all tasks under
\* the filter all, exactly the tasks that are not completed under active and
\* exactly the completed tasks under completed; the active and the completed
\* view have no task in common and together hold every task.  The method
\* has no assignment: it is an operator from the state to the view.
C17_FilteredViewByFilter ==
    LET NotDone(task) == ~task.completed
        Done(task) == task.completed
    IN  /\ ViewUnder("all") = tasks
        /\ IsViewOf(ViewUnder("active"), NotDone)
        /\ IsViewOf(ViewUnder("completed"), Done)
        /\ Ids(ViewUnder("active")) \cap Ids(ViewUnder("completed")) = {}
        /\ Ids(ViewUnder("active")) \cup Ids(ViewUnder("completed"))
               = Ids(tasks)
        /\ Len(ViewUnder("active")) + Len(ViewUnder("completed"))
               = Len(tasks)

\* under the filter active, of a completed and an active task the view
\* holds the active one
C17_Witness ==
    /\ currentFilter = "active"
    /\ Len(tasks) = 2
    /\ tasks[1].completed
    /\ ~tasks[2].completed
    /\ getFilteredTasks(State) = << tasks[2] >>
    /\ dom = { tasks[2].id }

\* C18: setFilter accepts only all, active and completed: a call with
\* another value is rejected and leaves the filter as it was, so the filter
\* is one of the three in every reachable state; a call with one of the
\* three changes the filter and leaves tasks, nextId and editingId alone.
C18_SetFilterAcceptsOnlyValid ==
    /\ currentFilter \in Filters
    /\ \A filter \in FilterInputs :
           LET post == setFilter(State, filter)
           IN  /\ filter \notin Filters =>
                      post.currentFilter = currentFilter
               /\ filter \in Filters =>
                      /\ post.currentFilter = filter
                      /\ post.tasks = tasks
                      /\ post.taskIdCounter = taskIdCounter
                      /\ post.editingTaskId = editingTaskId

\* what is stored gives the tasks and the counter of the state back
LoadsBack(st) ==
    /\ construct(st.storage, st.storageFull).tasks = st.tasks
    /\ construct(st.storage, st.storageFull).taskIdCounter = st.taskIdCounter

\* C19: clearCompleted() removes every completed task and no other, keeps
\* the remaining tasks as they were and in their order and does not change
\* nextId; when no task is completed the collection is as it was, and in
\* both cases the state is stored.
C19_ClearCompletedRemovesCompleted ==
    LET post == clearCompleted(State)
        NotDone(task) == ~task.completed
    IN  /\ IsViewOf(post.tasks, NotDone)
        /\ post.taskIdCounter = taskIdCounter
        /\ (\A i \in 1..Len(tasks) : ~tasks[i].completed)
               => post.tasks = tasks
        /\ post.storage = Stringify(post.tasks, post.taskIdCounter)
        /\ LoadsBack(post)

\* of two tasks the first is completed and the second is not, and
\* clearCompleted leaves the second
C19_Witness ==
    /\ Len(tasks) = 2
    /\ tasks[1].completed
    /\ ~tasks[2].completed
    /\ currentFilter = "all"
    /\ clearCompleted(State).tasks = << tasks[2] >>

\* C20: clearAll() empties the collection and clears editingId and leaves
\* nextId as it was, so that a create that follows it, at once or after the
\* page was loaded again, gives an id greater than every id issued before.
C20_ClearAllKeepsNextId ==
    LET post == clearAll(State)
        again == construct(post.storage, post.storageFull)
        Greater(id) == \A i \in 1..Len(issued) : id > issued[i]
    IN  /\ post.tasks = <<>>
        /\ post.editingTaskId = NoTask
        /\ post.taskIdCounter = taskIdCounter
        /\ again.tasks = <<>>
        /\ again.taskIdCounter = taskIdCounter
        /\ \A raw \in Inputs, deadline \in DeadlineInputs :
               Acceptable(<<>>, raw) =>
                   /\ Len(addTask(post, raw, deadline).tasks) = 1
                   /\ Greater(addTask(post, raw, deadline).tasks[1].id)
                   /\ Len(addTask(again, raw, deadline).tasks) = 1
                   /\ Greater(addTask(again, raw, deadline).tasks[1].id)

\* task 1 is stored and being edited; clearAll empties the store and ends
\* the edit, and the create after it gives the id 2
C20_Witness ==
    /\ issued = <<1>>
    /\ Len(tasks) = 1
    /\ editingTaskId = 1
    /\ clearAll(State).tasks = <<>>
    /\ clearAll(State).editingTaskId = NoTask
    /\ addTask(clearAll(State), << Run("A", 1) >>, "").tasks[1].id = 2

----------------------------------------------------------------------------
(* C21..C30                                                                *)

\* the calls that change the store and run to their end in the present
\* state: create with an acceptable text, toggle and update of a task,
\* delete (the removal itself, at once without an element in the list and
\* from the timer with one), clearCompleted and clearAll
CallsDone ==
    { [op |-> "addTask", taskId |-> NoTask, raw |-> raw] :
          raw \in { r \in Inputs : Acceptable(tasks, r) } }
    \cup { [op |-> "toggleTask", taskId |-> taskId, raw |-> <<>>] :
              taskId \in { t \in TaskIds : Has(tasks, t) } }
    \cup UNION { { [op |-> "saveEdit", taskId |-> taskId, raw |-> raw] :
                     raw \in { r \in Inputs :
                                  AcceptableEdit(tasks, taskId, r) } } :
                 taskId \in { t \in TaskIds : CanUpdate(t) } }
    \cup { [op |-> "deleteTask", taskId |-> taskId, raw |-> <<>>] :
              taskId \in { t \in TaskIds : Has(tasks, t) /\ t \notin dom } }
    \cup { [op |-> "removeTimer", taskId |-> NoTask, raw |-> <<>>] :
              n \in { k \in {1} : timers # <<>> } }
    \cup { [op |-> "clearCompleted", taskId |-> NoTask, raw |-> <<>>],
           [op |-> "clearAll", taskId |-> NoTask, raw |-> <<>>] }

\* the state after such a call in the state st
Apply(st, call) ==
    CASE call.op = "addTask" -> addTask(st, call.raw, "")
      [] call.op = "toggleTask" -> toggleTask(st, call.taskId)
      [] call.op = "saveEdit" -> saveEdit(st, call.taskId, call.raw)
      [] call.op = "deleteTask" -> deleteTask(st, call.taskId)
      [] call.op = "removeTimer" -> removeTimer(st)
      [] call.op = "clearCompleted" -> clearCompleted(st)
      [] call.op = "clearAll" -> clearAll(st)

\* the states after these calls
MutationsDone == { Apply(State, call) : call \in CallsDone }

\* the stored value is the JSON text of the tasks and the counter of st
Persisted(st) == st.storage = Stringify(st.tasks, st.taskIdCounter)

\* C21: after every mutating operation that runs to its end while the
\* storage takes the write, the stored value holds exactly the tasks and the
\* nextId of the store, whatever stale value it held before.
C21_BlobFollowsEveryMutation ==
    ~storageFull => \A post \in MutationsDone : Persisted(post)

\* an earlier write failed, so the stored value is out of date; the storage
\* has room again and the toggle of a task brings the stored value up to date
C21_Witness ==
    /\ ~storageFull
    /\ ~Persisted(State)
    /\ \E taskId \in TaskIds :
           /\ Has(tasks, taskId)
           /\ toggleTask(State, taskId).tasks # tasks
           /\ Persisted(toggleTask(State, taskId))

\* C22: saving a reachable store and loading the saved value in a new page
\* gives the same tasks, with every field and in the same order, and the
\* same nextId.
C22_SaveThenLoadRestores ==
    LET saved == saveTasks([State EXCEPT !.storageFull = FALSE])
        again == construct(saved.storage, FALSE)
    IN  /\ again.tasks = tasks
        /\ again.taskIdCounter = taskIdCounter
        /\ ~again.uncaught

\* a store of two tasks, the first one completed, the second one not, whose
\* saved value loads back to these two tasks and the counter 2
C22_Witness ==
    /\ Len(tasks) = 2
    /\ tasks[1].completed /\ tasks[1].completedAt = Now
    /\ ~tasks[2].completed
    /\ taskIdCounter = 2
    /\ construct(saveTasks(State).storage, FALSE).tasks = tasks

\* the state of a page that is opened on the value the storage holds now
Loaded == construct(storage, storageFull)

\* the stored value is JSON of an object whose "tasks" is an array
HoldsTaskArray == storage.kind = "json" /\ storage.tasksType = "array"

\* C23: loading never fails the caller: whatever the storage holds, no
\* exception leaves the load, and with nothing stored or with a stored text
\* that cannot be parsed the page starts with no tasks and nextId 0.
C23_LoadNeverFails ==
    /\ ~Loaded.uncaught
    /\ storage.kind \in {"missing", "garbage"} =>
           /\ Loaded.tasks = <<>>
           /\ Loaded.taskIdCounter = 0

\* the page was opened on a stored text that is not JSON, and it has no
\* tasks, the counter 0 and an empty list
C23_Witness ==
    /\ storage = Unparseable
    /\ tasks = <<>> /\ taskIdCounter = 0 /\ dom = {}
    /\ ~uncaught

\* the stored element is an object with a string as text and a number as id
Usable(entry) ==
    entry.truthy /\ entry.textType = "string" /\ entry.idType = "number"

\* the positions of the usable elements of the stored array
UsablePositions ==
    { i \in 1..Len(storage.tasks) : Usable(storage.tasks[i]) }

\* the k-th of these positions, counted from the front of the array
UsablePosition(k) ==
    CHOOSE i \in UsablePositions :
        Cardinality({ j \in UsablePositions : j <= i }) = k

\* C24: from JSON with a "tasks" array, loading drops exactly the elements
\* without a usable text or id and keeps every other element as it is, in
\* the order of the array.
C24_LoadKeepsExactlyUsableEntries ==
    HoldsTaskArray =>
        /\ Len(Loaded.tasks) = Cardinality(UsablePositions)
        /\ \A k \in 1..Len(Loaded.tasks) :
               Loaded.tasks[k] = storage.tasks[UsablePosition(k)].value

\* the page was opened on an array of a task, null and another task, and it
\* has the two tasks in the order of the array
C24_Witness ==
    /\ storage.kind = "json"
    /\ storage.tasks = << StoredSecond, StoredNull, StoredFirst >>
    /\ tasks = << StoredSecond.value, StoredFirst.value >>

\* the greatest number of a non-empty finite set of numbers
MaxOf(S) == CHOOSE n \in S : \A m \in S : m <= n

\* the stored value is JSON of an object from which loadTasks takes tasks:
\* its "tasks" is an array or is missing
LoadSucceeds ==
    storage.kind = "json" /\ storage.tasksType \in {"array", "undefined"}

\* C25: after a successful load, nextId is the greater of the stored counter
\* (0 when it is missing) and the greatest id of the loaded tasks, and the
\* task that create adds next has the id of no loaded task.
C25_LoadReconcilesNextId ==
    LoadSucceeds =>
        /\ Loaded.taskIdCounter =
               MaxOf({ CounterOrZero(storage) } \cup Ids(Loaded.tasks))
        /\ \A raw \in FewInputs, deadline \in DeadlineInputs :
               LET post == addTask(Loaded, raw, deadline)
               IN  Len(post.tasks) > Len(Loaded.tasks) =>
                       post.tasks[Len(post.tasks)].id \notin Ids(Loaded.tasks)

\* C26: when the storage refuses the write of a mutating operation, no
\* exception leaves the operation, the failure message is shown, the stored
\* value stays as it was, and everything else is exactly what the operation
\* gives when the write goes through.
C26_WriteFailureKeepsEffect ==
    storageFull =>
        \A call \in CallsDone :
            LET post == Apply(State, call)
                done == Apply([State EXCEPT !.storageFull = FALSE], call)
            IN  /\ ~post.uncaught
                /\ post.inputError = MsgSaveFailed
                /\ post.storage = storage
                /\ post.tasks = done.tasks
                /\ post.taskIdCounter = done.taskIdCounter
                /\ post = [done EXCEPT !.inputError = MsgSaveFailed,
                                       !.storage = storage,
                                       !.storageFull = TRUE]

\* the storage is full and a write has failed: the message is shown, the
\* store holds a task and a counter that the stored value does not have,
\* and no exception is on its way
C26_Witness ==
    /\ storageFull
    /\ inputError = MsgSaveFailed
    /\ tasks # <<>>
    /\ taskIdCounter > 0
    /\ ~Persisted(State)
    /\ ~uncaught

\* tasks, nextId, the stored value and the removal timers of st are those of
\* the present state
SameStore(st) ==
    /\ st.tasks = tasks
    /\ st.taskIdCounter = taskIdCounter
    /\ st.storage = storage
    /\ st.timers = timers

\* the request of a destructive action opens the modal with that action
\* pending and does nothing to the store
RequestLeavesStore ==
    \A action \in PendingActions :
        LET post == confirmAction(State, action)
        IN  /\ SameStore(post)
            /\ post.modalShown
            /\ post.pendingAction = action

\* the ways to cancel while the modal is open: No and the click outside
\* call hideModal, Escape goes through handleGlobalKeydown
Cancellations ==
    { hideModal(State), handleGlobalKeydown(State, "Escape") }

\* a cancellation closes the modal, does nothing to the store and leaves
\* nothing pending, so a later executeConfirmedAction does nothing to the
\* store either
CancelLeavesStore ==
    modalShown =>
        \A post \in Cancellations :
            /\ SameStore(post)
            /\ ~post.modalShown
            /\ post.pendingAction = NoAction
            /\ SameStore(executeConfirmedAction(post))

\* an action is pending only while the modal is open
PendingOnlyWhileShown == pendingAction # NoAction => modalShown

\* a step that removes a task or sets up a removal timer
RemovalStep == Len(tasks') < Len(tasks) \/ Len(timers') > Len(timers)

\* the step of the Yes button with an action pending
ConfirmStep ==
    /\ modalShown /\ pendingAction \in PendingActions
    /\ ~modalShown' /\ pendingAction' = NoAction

\* the step of the timer of a confirmed delete
TimerStep == timers # <<>> /\ timers' = Tail(timers)

\* C27: delete, clearCompleted and clearAll asked for in the page change the
\* store only when the user confirms: the request opens the modal and
\* leaves tasks, nextId and the stored value alone; No, a click outside and
\* Escape leave them alone and leave no action pending, so that the action
\* is never executed later; and a task is removed, or a removal timer set
\* up, only by the step of the Yes button or by the timer of a confirmed
\* delete.
C27_DestructiveOnlyAfterConfirm ==
    /\ [](RequestLeavesStore /\ CancelLeavesStore /\ PendingOnlyWhileShown)
    /\ [][RemovalStep => (ConfirmStep \/ TimerStep)]_vars

\* the modal is open on the request to delete a task of the store, nothing
\* has been removed or written since the request, and a No now leaves the
\* task in the store with nothing pending
C27_Witness ==
    /\ modalShown
    /\ pendingAction.kind = "deleteTask"
    /\ Has(tasks, pendingAction.id)
    /\ timers = <<>>
    /\ Persisted(State)
    /\ hideModal(State).pendingAction = NoAction
    /\ Has(executeConfirmedAction(hideModal(State)).tasks, pendingAction.id)

\* C28: beginEdit(id) for a task of the store makes it the task being
\* edited; an edit in progress on another task is dropped without saving;
\* no text, the collection, nextId and the stored value change; afterwards
\* the element of that task, and no other, is in edit mode.
C28_BeginEditSwitchesToTask ==
    \A taskId \in TaskIds :
        Has(tasks, taskId) =>
            LET post == editTask(State, taskId)
            IN  /\ post.editingTaskId = taskId
                /\ post.domEdit = { taskId }
                /\ post.tasks = tasks
                /\ post.taskIdCounter = taskIdCounter
                /\ post.storage = storage

\* task 1 is being edited, and editTask(2) makes task 2 the only task in
\* edit mode
C28_Witness ==
    /\ editingTaskId = 1 /\ domEdit = { 1 }
    /\ Has(tasks, 1) /\ Has(tasks, 2)
    /\ editTask(State, 2).editingTaskId = 2
    /\ editTask(State, 2).domEdit = { 2 }

\* C29: beginEdit(id) with an id that no task has is refused and leaves
\* editingId as it was.
C29_BeginEditUnknownIdRefused ==
    \A taskId \in TaskIds :
        ~Has(tasks, taskId) =>
            editTask(State, taskId).editingTaskId = editingTaskId

\* C30: cancelEdit() leaves no task being edited and no element in edit
\* mode, whatever the state; the collection with its texts, nextId, the
\* filter and the stored value are as before; a second cancelEdit() changes
\* nothing more.
C30_CancelEditOnlyEndsEdit ==
    LET post == cancelEdit(State)
    IN  /\ post.editingTaskId = NoTask
        /\ post.domEdit = {}
        /\ post.tasks = tasks
        /\ post.taskIdCounter = taskIdCounter
        /\ post.currentFilter = currentFilter
        /\ post.storage = storage
        /\ cancelEdit(post) = post

\* task 1 is being edited and an edit with an empty text has just been
\* refused; cancelEdit ends the edit and leaves the task as it was
C30_Witness ==
    /\ editingTaskId = 1 /\ domEdit = { 1 }
    /\ inputError = MsgEditEmpty
    /\ cancelEdit(State).editingTaskId = NoTask
    /\ cancelEdit(State).domEdit = {}
    /\ cancelEdit(State).tasks = tasks

----------------------------------------------------------------------------
(* C31..C38                                                                *)

\* 100 * completed / total rounded to the nearest whole number, a half
\* upwards
ExactRate(completed, total) == (200 * completed + total) \div (2 * total)

\* C31: statistics() gives total = the number of tasks, completed = the
\* number of completed tasks, active = total - completed, and
\* completionRate = round(completed / total * 100), or 0 without tasks, a
\* whole number from 0 to 100.
C31_StatisticsOfStore ==
    LET stats == getStats(State)
        done == { i \in 1..Len(tasks) : tasks[i].completed }
    IN  /\ stats.total = Len(tasks)
        /\ stats.completed = Cardinality(done)
        /\ stats.active = stats.total - stats.completed
        /\ stats.total = stats.completed + stats.active
        /\ stats.completionRate \in 0..100
        /\ stats.completionRate =
               IF stats.total > 0
               THEN ExactRate(stats.completed, stats.total)
               ELSE 0

\* C32: every task of the store, created, updated or loaded from the stored
\* value, has a text that after trimming is not empty and has at most 100
\* characters.
C32_TextsWithinLimits ==
    \A i \in 1..Len(tasks) :
        /\ Trim(tasks[i].text) # <<>>
        /\ Length(Trim(tasks[i].text)) <= 100

\* the ids of the tasks of the store that are not in the store of post
Leaving(post) == Ids(tasks) \ Ids(post.tasks)

\* the states after the calls that are no delete and no clear
CallsThatKeep ==
    { addTask(State, raw, deadline) :
          raw \in Inputs, deadline \in DeadlineInputs }
    \cup { toggleTask(State, taskId) : taskId \in TaskIds }
    \cup { editTask(State, taskId) : taskId \in TaskIds }
    \cup { saveEdit(State, taskId, raw) : taskId \in TaskIds, raw \in Inputs }
    \cup { setFilter(State, filter) : filter \in FilterInputs }
    \cup { cancelEdit(State) }

\* C33: in every state, also while the removal of a delete waits for its
\* timer, a task leaves the store only by a delete called with its own id,
\* by clearCompleted while it is completed, or by clearAll: the removal done
\* for delete(id), at once or from the timer, takes out no task of another
\* id, clearCompleted takes out completed tasks only, and no other call
\* takes out a task.
C33_TasksLeaveOnlyWhenAsked ==
    /\ \A taskId \in TaskIds :
           Leaving(deleteTask(State, taskId)) \subseteq { taskId }
    /\ timers # <<>> =>
           Leaving(removeTimer(State)) \subseteq { Head(timers).taskId }
    /\ \A id \in Leaving(clearCompleted(State)) :
           \E i \in 1..Len(tasks) : tasks[i].id = id /\ tasks[i].completed
    /\ \A post \in CallsThatKeep : Leaving(post) = {}

\* a confirmed delete of the task is waiting for its timer: deleteTask has
\* found the task in the store and scheduled its removal
DeleteConfirmed(taskId) ==
    /\ Has(tasks, taskId)
    /\ \E i \in 1..Len(timers) : timers[i].taskId = taskId

\* C34: every confirmed delete of a task of the store is eventually followed
\* by a state in which no task has that id, whatever is done in between,
\* given that the removal timer runs.
C34_ConfirmedDeleteEventuallyRemoves ==
    \A taskId \in TaskIds : DeleteConfirmed(taskId) ~> ~Has(tasks, taskId)

\* C35: in every reachable state editingId is absent or is the id of a task
\* of the store: no operation leaves the edit marker on a task that does
\* not exist.
C35_EditMarkerPointsAtTask ==
    editingTaskId = NoTask \/ Has(tasks, editingTaskId)

\* the states after every call that is not a create, and after a reload
CallsThatAreNoCreate ==
    { toggleTask(State, taskId) : taskId \in TaskIds }
    \cup { deleteTask(State, taskId) : taskId \in TaskIds }
    \cup { removeTimer(State) : n \in { k \in {1} : timers # <<>> } }
    \cup { editTask(State, taskId) : taskId \in TaskIds }
    \cup { saveEdit(State, taskId, raw) : taskId \in TaskIds, raw \in Inputs }
    \cup { setFilter(State, filter) : filter \in FilterInputs }
    \cup { cancelEdit(State), clearCompleted(State), clearAll(State),
           construct(storage, storageFull) }

\* C36: from an empty store on, nextId never decreases, goes up by exactly
\* one with each successful create and stays as it is with every refused
\* create and every other operation, and is never below the id of a task of
\* the store.
C36_NextIdCountsCreates ==
    /\ \A raw \in Inputs, deadline \in DeadlineInputs :
           addTask(State, raw, deadline).taskIdCounter =
               IF Acceptable(tasks, raw)
               THEN taskIdCounter + 1
               ELSE taskIdCounter
    /\ \A post \in CallsThatAreNoCreate :
           post.taskIdCounter = taskIdCounter
    /\ \A i \in 1..Len(tasks) : tasks[i].id <= taskIdCounter

\* one task was created and is gone again, and the next create takes the
\* counter from 1 to 2
C36_Witness ==
    /\ issued = << 1 >>
    /\ tasks = <<>>
    /\ taskIdCounter = 1
    /\ addTask(State, << Run("A", 1) >>, "").taskIdCounter = 2

\* the place of the task of that id in the collection
PlaceOf(ts, taskId) == CHOOSE i \in 1..Len(ts) : ts[i].id = taskId

\* any two tasks that are in both collections are in the same order in both
SameOrder(before, after) ==
    \A a, b \in Ids(before) \cap Ids(after) :
        PlaceOf(before, a) < PlaceOf(before, b)
            => PlaceOf(after, a) < PlaceOf(after, b)

Performed(st, action) == callPending([st EXCEPT !.pendingAction = action])

\* tasks, nextId, the stored value and the timers of the two states are the
\* same
SameStores(a, b) ==
    /\ a.tasks = b.tasks
    /\ a.taskIdCounter = b.taskIdCounter
    /\ a.storage = b.storage
    /\ a.timers = b.timers

\* C38: at most one destructive action is pending; Yes executes the action
\* requested last, once, and an earlier request that was not confirmed is
\* not executed; a second Yes without a new request executes nothing; and
\* with the modal hidden no action is pending.
C38_OnePendingAction ==
    /\ pendingAction \in PendingActions \cup { NoAction }
    /\ ~modalShown => pendingAction = NoAction
    /\ \A first, last \in PendingActions :
           LET asked == confirmAction(confirmAction(State, first), last)
               post == executeConfirmedAction(asked)
           IN  /\ asked.pendingAction = last
               /\ SameStores(post, Performed(State, last))
               /\ post.pendingAction = NoAction /\ ~post.modalShown
               /\ SameStores(executeConfirmedAction(post), post)

\* the delete of task 1 is pending and both tasks are in the store; a
\* request to clear all followed by Yes empties the store and sets up no
\* removal timer, so the delete is not executed
C38_Witness ==
    /\ modalShown
    /\ pendingAction = DeleteAction(1)
    /\ Has(tasks, 1) /\ Has(tasks, 2)
    /\ timers = <<>>
    /\ LET post == executeConfirmedAction(
                       confirmAction(State, ClearAllAction))
       IN  post.tasks = <<>> /\ post.timers = <<>>

====
